---- MODULE Spec2Model ----
(***************************************************************************)
(* InjectDUTHierarchy (lib/Dialect/FIRRTL/Transforms/InjectDUTHierarchy.cpp)*)
(* as a state machine.  A circuit is a list of modules and a list of       *)
(* hierarchical paths; the pass reads the circuit's annotations, splits    *)
(* the DUT into a shell and a wrapper, instantiates the wrapper inside the *)
(* shell, rewrites the hierarchical paths that mention the DUT and         *)
(* retargets the annotations of the shell.                                 *)
(*                                                                         *)
(* The circuit's annotation list is only ever read, front to back, by the  *)
(* loop of lines 101-127; the model draws each element when the loop       *)
(* reaches it.  Whether assert() is compiled in is a property of the       *)
(* build; the model takes either outcome where an assertion is false.      *)
(***************************************************************************)
EXTENDS Integers, Sequences, FiniteSets, TLC

VARIABLES
  modules,            \* the circuit's modules, in document order
  paths,              \* the circuit's hw.hierpath operations, in document order
  orig,               \* the circuit as it was handed to the pass
  pc,                 \* position inside runOnOperation
  wrapperName,        \* StringAttr wrapperName (line 90), None when null
  moveDut,            \* bool moveDut (line 93)
  error,              \* bool error (line 97)
  nInject,            \* InjectDUTHierarchy annotations read so far
  nNamed,             \* ... of these, the ones that carry a 'name'
  nMalformed,         \* ... of these, the ones that carry none
  directive,          \* the annotation that set wrapperName, NoDirective before
  circuitNS,          \* CircuitNamespace circuitNS (line 159)
  dut,                \* FModuleOp dut (line 149): index into modules, 0 when unset
  wrapper,            \* FModuleOp wrapper (line 87): index into modules, 0 when unset
  wrapperInst,        \* inner symbol of InstanceOp wrapperInst (line 209)
  dutPaths,           \* DenseSet dutPaths (line 224)
  dutPortSyms,        \* DenseSet dutPortSyms (line 224)
  nlas,               \* what is left of nlaTable.lookup(dut) (line 263)
  dutRenames,         \* DenseMap dutRenames (line 262), as a set of pairs
  passFailed,         \* signalPassFailure() was called
  analysesPreserved   \* markAllAnalysesPreserved() was called

vars == <<modules, paths, orig, pc, wrapperName, moveDut, error, nInject,
          nNamed, nMalformed, directive, circuitNS, dut, wrapper, wrapperInst, dutPaths,
          dutPortSyms, nlas, dutRenames, passFailed, analysesPreserved>>

-----------------------------------------------------------------------------
(* Bounds of the model.                                                    *)

MaxPaths == 2

MaxDirectives == 2

-----------------------------------------------------------------------------
(* Attributes.                                                             *)

\* A null attribute: no 'name', no inner symbol, no 'circt.nonlocal'.
None == "none"

\* hw::InnerRefAttr (ref # None) or FlatSymbolRefAttr (ref = None).
Loc(m, r) == [mod |-> m, ref |-> r]

\* An annotation: its class and its 'circt.nonlocal' member.
Anno(c, s) == [cls |-> c, nonlocal |-> s]

dutAnnoClass == "sifive.enterprise.firrtl.MarkDUTAnnotation"

injectDUTHierarchyAnnoClass == "sifive.enterprise.firrtl.InjectDUTHierarchyAnnotation"

otherAnnoClass == "other"

Range(s) == {s[i] : i \in 1..Len(s)}

-----------------------------------------------------------------------------
(* The circuits the pass is run on.  Top instantiates D; D has an input    *)
(* port a and an output port b, a wire w and an instance sub of Sub; Sub   *)
(* has a wire x.  D may or may not carry the MarkDUTAnnotation.            *)

TopName == "Top"

DutName == "D"

SubName == "Sub"

\* The names the directive's 'name' member is drawn from: a fresh name, the
\* DUT's own name, a path's symbol.
Hints == {"W", DutName, "p1"}

PathSym(i) == "p" \o ToString(i)

Port(n, d, s) == [name |-> n, dir |-> d, sym |-> s]

\* The symbol of port b is the name the wrapper gets when the hint is the
\* DUT's name.
DutPorts == <<Port("a", "in", "a"), Port("b", "out", "D_0")>>

Module(n, v, ps, as, pas, is, cs, rw) ==
  [name |-> n, vis |-> v, ports |-> ps, annos |-> as, portAnnos |-> pas,
   insts |-> is, comps |-> cs, conns |-> <<>>, rwprobes |-> rw]

TopModule ==
  Module(TopName, "public", <<>>, <<>>, <<>>,
         <<[sym |-> "d", mod |-> DutName]>>, {}, {})

SubModule == Module(SubName, "private", <<>>, <<>>, <<>>, <<>>, {"x"}, {})

DutModule(v, marked, modRef, portRef) ==
  Module(DutName, v, DutPorts,
         <<Anno(otherAnnoClass, modRef)>>
           \o (IF marked THEN <<Anno(dutAnnoClass, None)>> ELSE <<>>),
         <<<<Anno(otherAnnoClass, portRef)>>, <<>>>>,
         <<[sym |-> "sub", mod |-> SubName]>>, {"w"},
         {Loc(DutName, "w")})

\* The well-formed namepaths of this hierarchy.
Namepaths ==
  { <<Loc(TopName, "d"), Loc(DutName, None)>>,
    <<Loc(TopName, "d"), Loc(DutName, "a")>>,
    <<Loc(TopName, "d"), Loc(DutName, "w")>>,
    <<Loc(DutName, "sub"), Loc(SubName, None)>>,
    <<Loc(TopName, "d"), Loc(DutName, "sub"), Loc(SubName, "x")>>,
    <<Loc(DutName, None)>>,
    <<Loc(DutName, "a")>>,
    <<Loc(SubName, "x")>> }

PathLists ==
  UNION { [1..n -> Namepaths] : n \in 0..MaxPaths }

MkPaths(nps) == [i \in 1..Len(nps) |-> [sym |-> PathSym(i), namepath |-> nps[i]]]

\* hw::HierPathOp accessors.
modPart(np, i) == np[i].mod
root(np) == np[1].mod
leafMod(np) == np[Len(np)].mod
isModule(np) == np[Len(np)].ref = None
isComponent(np) == np[Len(np)].ref # None
ref(np) == np[Len(np)].ref

\* A non-local annotation on a module or on one of its ports names a path that
\* ends at that module.
ModulePathSyms(ps, m) ==
  {ps[i].sym : i \in {j \in 1..Len(ps) :
                        isModule(ps[j].namepath) /\ leafMod(ps[j].namepath) = m}}

Circuits ==
  { [modules |-> <<TopModule, DutModule(v, marked, modRef, portRef), SubModule>>,
     paths |-> MkPaths(nps)] :
      <<v, marked, nps, modRef, portRef>> \in
        { t \in {"public", "private"} \X BOOLEAN \X PathLists
                  \X ({None} \cup {PathSym(i) : i \in 1..MaxPaths})
                  \X ({None} \cup {PathSym(i) : i \in 1..MaxPaths}) :
            /\ t[4] \in {None} \cup ModulePathSyms(MkPaths(t[3]), DutName)
            /\ t[5] \in {None} \cup ModulePathSyms(MkPaths(t[3]), DutName) } }

\* The circuit's annotations: of another class, or an InjectDUTHierarchy
\* annotation with or without 'name' and with or without 'moveDut'.
CircuitAnnos ==
  {[cls |-> otherAnnoClass, name |-> None, moveDut |-> "absent"]}
    \cup [cls : {injectDUTHierarchyAnnoClass}, name : Hints \cup {None},
          moveDut : {"absent", "true", "false"}]

NoDirective == [cls |-> None, name |-> None, moveDut |-> "absent"]

Init ==
  /\ \E c \in Circuits :
       /\ modules = c.modules
       /\ paths = c.paths
       /\ orig = c
  /\ pc = "annotations"
  /\ wrapperName = None
  /\ moveDut = FALSE
  /\ error = FALSE
  /\ nInject = 0
  /\ nNamed = 0
  /\ nMalformed = 0
  /\ directive = NoDirective
  /\ circuitNS = {}
  /\ dut = 0
  /\ wrapper = 0
  /\ wrapperInst = None
  /\ dutPaths = {}
  /\ dutPortSyms = {}
  /\ nlas = <<>>
  /\ dutRenames = {}
  /\ passFailed = FALSE
  /\ analysesPreserved = FALSE

-----------------------------------------------------------------------------
(* Lines 101-127: one iteration of the loop over the circuit's annotations.*)

\* Line 106: the annotation has no 'name' member.
lacksName(anno) == anno.name = None

\* Line 115 left out: a later annotation overwrites the name.
isDuplicateIgnored(name) == FALSE

\* Line 115: a name was already taken from an earlier annotation.
isDuplicate(name) == name # None

\* Lines 125-126: 'moveDut' is only assigned when the member is present.
readMoveDut(anno, current) ==
  IF anno.moveDut = "absent" THEN current ELSE (anno.moveDut = "true")

ReadAnnotation ==
  /\ pc = "annotations"
  /\ \E anno \in CircuitAnnos :
       /\ anno.cls = injectDUTHierarchyAnnoClass => nInject < MaxDirectives
       /\ IF anno.cls # injectDUTHierarchyAnnoClass
            THEN UNCHANGED <<wrapperName, moveDut, error, nInject, nNamed,
                             nMalformed, directive>>
          ELSE IF lacksName(anno)
            THEN /\ error' = TRUE
                 /\ nInject' = nInject + 1
                 /\ nMalformed' = nMalformed + 1
                 /\ UNCHANGED <<wrapperName, moveDut, nNamed, directive>>
          ELSE IF isDuplicate(wrapperName)
            THEN /\ error' = TRUE
                 /\ nInject' = nInject + 1
                 /\ nNamed' = nNamed + 1
                 /\ UNCHANGED <<wrapperName, moveDut, nMalformed, directive>>
          ELSE /\ wrapperName' = anno.name
               /\ moveDut' = readMoveDut(anno, moveDut)
               /\ directive' = anno
               /\ nInject' = nInject + 1
               /\ nNamed' = nNamed + 1
               /\ UNCHANGED <<error, nMalformed>>
  /\ UNCHANGED <<modules, paths, orig, pc, circuitNS, dut, wrapper, wrapperInst,
                 dutPaths, dutPortSyms, nlas, dutRenames, passFailed,
                 analysesPreserved>>

\* instanceInfo.getDut(): the module that carries the MarkDUTAnnotation.
getDut(ms) ==
  LET marked == {i \in 1..Len(ms) :
                   \E k \in 1..Len(ms[i].annos) : ms[i].annos[k].cls = dutAnnoClass}
  IN IF marked = {} THEN 0 ELSE CHOOSE i \in marked : \A j \in marked : i <= j

\* CircuitNamespace(circuit): every symbol of the circuit's body.
CircuitSymbols(ms, ps) ==
  {ms[i].name : i \in 1..Len(ms)} \cup {ps[i].sym : i \in 1..Len(ps)}

\* Line 134 left out: the pass goes on without a name.
prerequisitesIgnored(name) == FALSE

\* Line 134: no annotation gave a name.
prerequisitesNotMet(name) == name = None

\* Lines 129-149 and 158-159: the loop is over; fail, do nothing, or go on.
CheckPrerequisites ==
  /\ pc = "annotations"
  /\ IF error
       THEN /\ passFailed' = TRUE
            /\ pc' = "failed"
            /\ UNCHANGED <<analysesPreserved, dut, circuitNS>>
     ELSE IF prerequisitesNotMet(wrapperName)
       THEN /\ analysesPreserved' = TRUE
            /\ pc' = "preserved"
            /\ UNCHANGED <<passFailed, dut, circuitNS>>
     ELSE IF getDut(modules) = 0
       THEN /\ passFailed' = TRUE
            /\ pc' = "failed"
            /\ UNCHANGED <<analysesPreserved, dut, circuitNS>>
     ELSE /\ dut' = getDut(modules)
          /\ circuitNS' = CircuitSymbols(modules, paths)
          /\ pc' = "split"
          /\ UNCHANGED <<passFailed, analysesPreserved>>
  /\ UNCHANGED <<modules, paths, orig, wrapperName, moveDut, error, nInject,
                 nNamed, nMalformed, directive, wrapper, wrapperInst, dutPaths,
                 dutPortSyms, nlas, dutRenames>>

-----------------------------------------------------------------------------
(* Namespace::newName: the hint when it is free, else the hint with the    *)
(* first free suffix _0, _1, ...; the name is reserved by the caller's     *)
(* update of the namespace.                                                *)

newName(ns, hint) ==
  IF hint \notin ns THEN hint
  ELSE LET cand(i) == hint \o "_" \o ToString(i)
           n == CHOOSE i \in 0..Cardinality(ns) :
                  cand(i) \notin ns /\ \A j \in 0..(i - 1) : cand(j) \in ns
       IN cand(n)

-----------------------------------------------------------------------------
(* Lines 160-204: create the new DUT, hand over visibility, rename the old *)
(* DUT, strip annotations.                                                 *)

\* Line 162: FModuleOp with the DUT's name, ports (symbols and annotations
\* with them) and annotations; a new symbol is public, its body is empty.
newDUT(old) ==
  [name |-> old.name, vis |-> "public", ports |-> old.ports,
   annos |-> old.annos, portAnnos |-> old.portAnnos, insts |-> <<>>,
   comps |-> {}, conns |-> <<>>, rwprobes |-> {}]

\* Lines 177-182: the visibility of the new DUT and of the old one.
newDUTVisibility(move, oldVis) == IF move THEN "private" ELSE oldVis

oldDUTVisibility(move, oldVis) == IF move THEN oldVis ELSE "private"

\* Line 183 without the namespace: the hint is used as it is.
wrapperModuleNameUnchecked(ns, hint) == hint

\* Line 183: the name the old DUT is renamed to.
wrapperModuleName(ns, hint) == newName(ns, hint)

\* Lines 195-196 left out: the wrapper loses the MarkDUTAnnotation too.
removeFromWrapperAlways(anno, move) == TRUE

\* Lines 194-198: the predicate of removeAnnotations on the wrapper.
removeFromWrapper(anno, move) ==
  IF anno.cls = dutAnnoClass THEN ~move ELSE TRUE

\* Lines 202-203: the annotations left on the new DUT.
newDUTAnnotations(annos, move) ==
  IF move THEN SelectSeq(annos, LAMBDA a : a.cls # dutAnnoClass) ELSE annos

SplitModule ==
  /\ pc = "split"
  /\ LET old == modules[dut]
         wname == wrapperModuleName(circuitNS, wrapperName)
         shell == [newDUT(old) EXCEPT
                     !.vis = newDUTVisibility(moveDut, old.vis),
                     !.annos = newDUTAnnotations(old.annos, moveDut)]
         wrap == [old EXCEPT
                     !.vis = oldDUTVisibility(moveDut, old.vis),
                     !.name = wname,
                     !.portAnnos = [i \in 1..Len(old.ports) |-> <<>>],
                     !.annos = SelectSeq(old.annos,
                                 LAMBDA a : ~removeFromWrapper(a, moveDut))]
     IN /\ modules' = SubSeq(modules, 1, dut - 1) \o <<wrap, shell>>
                        \o SubSeq(modules, dut + 1, Len(modules))
        /\ circuitNS' = circuitNS \cup {wname}
        /\ wrapper' = dut
        /\ dut' = dut + 1
  /\ pc' = "instantiate"
  /\ UNCHANGED <<paths, orig, wrapperName, moveDut, error, nInject, nNamed,
                 nMalformed, directive, wrapperInst, dutPaths, dutPortSyms, nlas,
                 dutRenames, passFailed, analysesPreserved>>

-----------------------------------------------------------------------------
(* Lines 206-221: instantiate the wrapper inside the DUT and wire it up.   *)

\* hw::InnerSymbolNamespace(module): the inner symbols of its ports and body.
InnerSymbols(m) ==
  ({m.ports[i].sym : i \in 1..Len(m.ports)} \ {None})
    \cup {m.insts[i].sym : i \in 1..Len(m.insts)} \cup m.comps

\* Line 214: the inner symbol of the wrapper's instance.
wrapperInstSym(m, wname) == newName(InnerSymbols(m), wname)

ModulePort(i) == [of |-> "module", port |-> i]

InstancePort(i) == [of |-> "instance", port |-> i]

\* Lines 218-219 left out: every port is connected as an output is.
connectPortUnswapped(dir, i) ==
  [dst |-> [of |-> "module", port |-> i], src |-> [of |-> "instance", port |-> i]]

\* Lines 216-220: lhs is the DUT's port, rhs the instance's; an input port
\* swaps them; emitConnect(lhs, rhs) drives lhs from rhs.
connectPort(dir, i) ==
  IF dir = "in" THEN [dst |-> InstancePort(i), src |-> ModulePort(i)]
  ELSE [dst |-> ModulePort(i), src |-> InstancePort(i)]

InstantiateWrapper ==
  /\ pc = "instantiate"
  /\ LET shell == modules[dut]
         sym == wrapperInstSym(shell, modules[wrapper].name)
     IN /\ wrapperInst' = sym
        /\ modules' = [modules EXCEPT ![dut] =
             [shell EXCEPT
                !.insts = <<[sym |-> sym, mod |-> modules[wrapper].name]>>,
                !.conns = [i \in 1..Len(shell.ports) |->
                             connectPort(shell.ports[i].dir, i)]]]
  /\ pc' = "collect"
  /\ UNCHANGED <<paths, orig, wrapperName, moveDut, error, nInject, nNamed,
                 nMalformed, directive, circuitNS, dut, wrapper, dutPaths, dutPortSyms,
                 nlas, dutRenames, passFailed, analysesPreserved>>

-----------------------------------------------------------------------------
(* Lines 223-263: the paths used by the DUT's annotations, the DUT's port  *)
(* symbols, and the paths that mention the DUT's name.                     *)

NonlocalSyms(annos) ==
  {annos[k].nonlocal : k \in 1..Len(annos)} \ {None}

\* Lines 225-239.
collectDutPaths(m) ==
  NonlocalSyms(m.annos)
    \cup UNION {NonlocalSyms(m.portAnnos[i]) : i \in 1..Len(m.ports)}

collectDutPortSyms(m) ==
  {m.ports[i].sym : i \in 1..Len(m.ports)} \ {None}

\* NLATable::lookup(module): the paths with the module's name in some
\* element, in document order.
lookup(ps, name) ==
  LET hit == SelectSeq(ps, LAMBDA p :
                 \E i \in 1..Len(p.namepath) : modPart(p.namepath, i) = name)
  IN [i \in 1..Len(hit) |-> hit[i].sym]

CollectPaths ==
  /\ pc = "collect"
  /\ dutPaths' = collectDutPaths(modules[dut])
  /\ dutPortSyms' = collectDutPortSyms(modules[dut])
  /\ nlas' = lookup(paths, modules[dut].name)
  /\ pc' = "nlas"
  /\ UNCHANGED <<modules, paths, orig, wrapperName, moveDut, error, nInject,
                 nNamed, nMalformed, directive, circuitNS, dut, wrapper, wrapperInst,
                 dutRenames, passFailed, analysesPreserved>>

-----------------------------------------------------------------------------
(* Lines 263-313: one iteration of the loop over the paths that mention    *)
(* the DUT, and addHierarchy (lines 55-79).                                *)

PathOf(ps, sym) == ps[CHOOSE i \in 1..Len(ps) : ps[i].sym = sym]

\* nla->setAttr("namepath", ...) / path.setNamepathAttr(...)
setNamepath(ps, sym, np) ==
  [i \in 1..Len(ps) |->
     IF ps[i].sym = sym THEN [ps[i] EXCEPT !.namepath = np] ELSE ps[i]]

\* b.setInsertionPoint(nla); b.clone(*nla); clone.setSymNameAttr(...)
insertClone(ps, sym, cloneSym) ==
  LET k == CHOOSE i \in 1..Len(ps) : ps[i].sym = sym
  IN SubSeq(ps, 1, k - 1) \o <<[ps[k] EXCEPT !.sym = cloneSym]>>
       \o SubSeq(ps, k, Len(ps))

\* Lines 271-275: the first element re-owned by the wrapper, then the tail.
rootNamepath(namepath, wname, front) ==
  <<Loc(wname, front)>> \o Tail(namepath)

\* What cast<hw::InnerRefAttr>(attr).getName() can yield without assertions:
\* the name of an InnerRefAttr; for a FlatSymbolRefAttr the cast is undefined
\* and the name read is whatever the other storage holds there.
UndefinedNames == {"<null>", "<garbage>"}

castInnerRefName(attr) ==
  IF attr.ref # None THEN {attr.ref} ELSE UndefinedNames

\* Lines 55-79.
addHierarchy(namepath, dutName, instSym, wname) ==
  LET nlaIdx == CHOOSE i \in 1..Len(namepath) :
                  /\ modPart(namepath, i) = dutName
                  /\ \A j \in 1..(i - 1) : modPart(namepath, j) # dutName
      dutRef == namepath[nlaIdx]
  IN SubSeq(namepath, 1, nlaIdx - 1)
       \o <<Loc(dutName, instSym)>>
       \o <<IF dutRef.ref # None THEN Loc(wname, dutRef.ref) ELSE Loc(wname, None)>>
       \o SubSeq(namepath, nlaIdx + 1, Len(namepath))

\* Line 269: the DUT is the root module.
isRootCase(namepath, dutName) == root(namepath) = dutName

\* Lines 292-294: a reference path that targets a port of the DUT.
isPortLeafCase(namepath, dutName, portSyms) ==
  /\ leafMod(namepath) = dutName
  /\ isComponent(namepath)
  /\ ref(namepath) \in portSyms

\* Lines 292 and 300: a module path used by the DUT or by one of its ports.
isCloneCase(namepath, sym, dutName, usedPaths) ==
  /\ leafMod(namepath) = dutName
  /\ isModule(namepath)
  /\ sym \in usedPaths

ProcessNLA ==
  /\ pc = "nlas"
  /\ nlas # <<>>
  /\ LET sym == Head(nlas)
         namepath == PathOf(paths, sym).namepath
         dutName == modules[dut].name
         wname == modules[wrapper].name
     IN IF isRootCase(namepath, dutName)
          THEN \/ /\ Len(namepath) > 1
                  /\ paths' = setNamepath(paths, sym,
                                rootNamepath(namepath, wname, namepath[1].ref))
                  /\ nlas' = Tail(nlas)
                  /\ UNCHANGED <<pc, circuitNS, dutRenames>>
               \* The assertion of line 270 is false.  With assertions the
               \* process aborts; so it may where the cast is undefined.
               \/ /\ Len(namepath) = 1
                  /\ pc' = "aborted"
                  /\ UNCHANGED <<paths, nlas, circuitNS, dutRenames>>
               \* Without assertions lines 271-277 run.
               \/ /\ Len(namepath) = 1
                  /\ \E front \in castInnerRefName(namepath[1]) :
                       paths' = setNamepath(paths, sym,
                                  rootNamepath(namepath, wname, front))
                  /\ nlas' = Tail(nlas)
                  /\ UNCHANGED <<pc, circuitNS, dutRenames>>
        ELSE IF isPortLeafCase(namepath, dutName, dutPortSyms)
          THEN /\ nlas' = Tail(nlas)
               /\ UNCHANGED <<pc, paths, circuitNS, dutRenames>>
        ELSE LET doClone == isCloneCase(namepath, sym, dutName, dutPaths)
                 cloneSym == newName(circuitNS, sym)
                 cloned == IF doClone THEN insertClone(paths, sym, cloneSym)
                           ELSE paths
             IN /\ paths' = setNamepath(cloned, sym,
                              addHierarchy(namepath, dutName, wrapperInst, wname))
                /\ circuitNS' = IF doClone THEN circuitNS \cup {cloneSym}
                                ELSE circuitNS
                /\ dutRenames' = IF doClone
                                   THEN dutRenames \cup {[from |-> sym, to |-> cloneSym]}
                                 ELSE dutRenames
                /\ nlas' = Tail(nlas)
                /\ UNCHANGED pc
  /\ UNCHANGED <<modules, orig, wrapperName, moveDut, error, nInject, nNamed,
                 nMalformed, directive, dut, wrapper, wrapperInst, dutPaths, dutPortSyms,
                 passFailed, analysesPreserved>>

-----------------------------------------------------------------------------
(* Lines 315-346: the annotations of the DUT and of its ports that name a  *)
(* cloned path are removed and added again with the clone's symbol; the    *)
(* rwprobes of the wrapper are re-owned by the wrapper.                    *)

isRenamed(anno, renames) ==
  /\ anno.nonlocal # None
  /\ \E r \in renames : r.from = anno.nonlocal

renamedTo(sym, renames) == (CHOOSE r \in renames : r.from = sym).to

\* removeAnnotations(removeAndUpdateNLAs); addAnnotations(newAnnotations)
removeAndUpdateNLAs(annos, renames) ==
  SelectSeq(annos, LAMBDA a : ~isRenamed(a, renames))
    \o LET hit == SelectSeq(annos, LAMBDA a : isRenamed(a, renames))
       IN [k \in 1..Len(hit) |->
             [hit[k] EXCEPT !.nonlocal = renamedTo(hit[k].nonlocal, renames)]]

\* Lines 343-346.
updateRWProbes(targets, wname) == {Loc(wname, t.ref) : t \in targets}

UpdateAnnotations ==
  /\ pc = "nlas"
  /\ nlas = <<>>
  /\ LET shell == modules[dut]
         wrap == modules[wrapper]
     IN modules' = [modules EXCEPT
          ![dut] = [shell EXCEPT
             !.annos = removeAndUpdateNLAs(shell.annos, dutRenames),
             !.portAnnos = [i \in 1..Len(shell.ports) |->
                              removeAndUpdateNLAs(shell.portAnnos[i], dutRenames)]],
          ![wrapper] = [wrap EXCEPT
             !.rwprobes = updateRWProbes(wrap.rwprobes, wrap.name)]]
  /\ pc' = "done"
  /\ UNCHANGED <<paths, orig, wrapperName, moveDut, error, nInject, nNamed,
                 nMalformed, directive, circuitNS, dut, wrapper, wrapperInst, dutPaths,
                 dutPortSyms, nlas, dutRenames, passFailed, analysesPreserved>>

Next ==
  \/ ReadAnnotation
  \/ CheckPrerequisites
  \/ SplitModule
  \/ InstantiateWrapper
  \/ CollectPaths
  \/ ProcessNLA
  \/ UpdateAnnotations

Spec == Init /\ [][Next]_vars

-----------------------------------------------------------------------------
(* What the properties speak of.                                           *)

origDut == orig.modules[getDut(orig.modules)]

shellModule == modules[dut]

wrapperModule == modules[wrapper]

isMarked(m) == \E k \in 1..Len(m.annos) : m.annos[k].cls = dutAnnoClass

PublicModules(ms) == {i \in 1..Len(ms) : ms[i].vis = "public"}

DesignUnchanged == modules = orig.modules /\ paths = orig.paths

NothingCreated ==
  /\ dut = 0
  /\ wrapper = 0
  /\ wrapperInst = None
  /\ dutRenames = {}

\* The run failed for one of the three reasons the pass reports.
BadDirectives ==
  \/ nMalformed > 0
  \/ nNamed > 1
  \/ nNamed = 1 /\ getDut(orig.modules) = 0

\* C1: with no InjectDUTHierarchy annotation in the circuit the run ends by
\* marking all analyses preserved, signals no failure, and the modules and
\* the paths are what they were, with or without a marked DUT.
NoDirectiveIsNoOp ==
  (nInject = 0 /\ pc # "annotations") =>
     /\ pc = "preserved"
     /\ analysesPreserved
     /\ ~passFailed
     /\ DesignUnchanged

NoDirectiveWitness ==
  /\ pc = "preserved"
  /\ nInject = 0
  /\ getDut(orig.modules) # 0
  /\ Len(orig.paths) > 0

\* C2: the run fails exactly when an annotation lacks 'name', two annotations
\* carry one, or one does and no module is the DUT; it then signals failure
\* with the modules and paths as they were and nothing created.
ErrorsArePreflight ==
  /\ (pc # "annotations" /\ BadDirectives) => pc = "failed"
  /\ pc = "failed" =>
       /\ BadDirectives
       /\ passFailed
       /\ ~analysesPreserved
       /\ DesignUnchanged
       /\ NothingCreated
  /\ passFailed => pc = "failed"

ErrorsArePreflightWitness ==
  /\ pc = "failed"
  /\ nNamed = 2
  /\ nMalformed = 0
  /\ getDut(orig.modules) # 0
  /\ Len(orig.paths) > 0

\* C3: after a successful run there is one more module; the shell has the
\* original DUT's name and ports; its body is one instance, of the wrapper,
\* and one connection per port: a module input drives the instance's input,
\* an instance output drives the module's output.
InterfacePreserved ==
  pc = "done" =>
    /\ Len(modules) = Len(orig.modules) + 1
    /\ shellModule.name = origDut.name
    /\ shellModule.ports = origDut.ports
    /\ Len(shellModule.insts) = 1
    /\ shellModule.insts[1].mod = wrapperModule.name
    /\ shellModule.insts[1].sym = wrapperInst
    /\ shellModule.comps = {}
    /\ Len(shellModule.conns) = Len(origDut.ports)
    /\ \A i \in 1..Len(origDut.ports) :
         LET c == shellModule.conns[i]
         IN /\ c.dst.port = i
            /\ c.src.port = i
            /\ origDut.ports[i].dir = "in" =>
                 c.src.of = "module" /\ c.dst.of = "instance"
            /\ origDut.ports[i].dir = "out" =>
                 c.src.of = "instance" /\ c.dst.of = "module"
    /\ \A i \in 1..Len(orig.modules) :
         i # getDut(orig.modules) =>
           \E j \in 1..Len(modules) : modules[j] = orig.modules[i]

InterfacePreservedWitness ==
  /\ pc = "done"
  /\ \E i \in 1..Len(shellModule.ports) : shellModule.ports[i].dir = "in"
  /\ \E i \in 1..Len(shellModule.ports) : shellModule.ports[i].dir = "out"
  /\ Len(shellModule.conns) = 2

TopLevelSymbols(ms, ps) ==
  [i \in 1..(Len(ms) + Len(ps)) |->
     IF i <= Len(ms) THEN ms[i].name ELSE ps[i - Len(ms)].sym]

PairwiseDistinct(seq) ==
  \A i, j \in 1..Len(seq) : i # j => seq[i] # seq[j]

\* C5: the top-level symbols (module names, path symbols) of the input are
\* pairwise distinct, and after a successful run they still are, the
\* wrapper's name and the clones' symbols among them; the inner symbol of the
\* wrapper's instance is none of the shell's port symbols.
SymbolsStayUnique ==
  /\ PairwiseDistinct(TopLevelSymbols(orig.modules, orig.paths))
  /\ pc = "done" =>
       /\ PairwiseDistinct(TopLevelSymbols(modules, paths))
       /\ wrapperInst # None
       /\ \A i \in 1..Len(shellModule.ports) :
            shellModule.ports[i].sym # wrapperInst

SymbolsStayUniqueWitness ==
  /\ pc = "done"
  /\ wrapperName = origDut.name
  /\ wrapperModule.name # wrapperName
  /\ wrapperInst # wrapperModule.name
  /\ dutRenames # {}

-----------------------------------------------------------------------------
(* Hierarchical paths against the hierarchy.                               *)

OrigSyms == {orig.paths[i].sym : i \in 1..Len(orig.paths)}

OrigPaths == {orig.paths[i] : i \in 1..Len(orig.paths)}

NowPaths == {paths[i] : i \in 1..Len(paths)}

TouchesDut(p) ==
  \E i \in 1..Len(p.namepath) : modPart(p.namepath, i) = origDut.name

OrigPortSyms == collectDutPortSyms(origDut)

\* Module m has an instance with inner symbol s of module target.
HasInstance(ms, m, s, target) ==
  \E i \in 1..Len(ms) :
    /\ ms[i].name = m
    /\ \E k \in 1..Len(ms[i].insts) :
         ms[i].insts[k].sym = s /\ ms[i].insts[k].mod = target

\* Module m has a port or a component with inner symbol s.
HasTarget(ms, m, s) ==
  \E i \in 1..Len(ms) : ms[i].name = m /\ s \in InnerSymbols(ms[i])

WellFormed(ms, np) ==
  /\ Len(np) >= 1
  /\ \A i \in 1..(Len(np) - 1) :
       /\ np[i].ref # None
       /\ HasInstance(ms, np[i].mod, np[i].ref, np[i + 1].mod)
  /\ IF np[Len(np)].ref = None
       THEN \E i \in 1..Len(ms) : ms[i].name = np[Len(np)].mod
     ELSE HasTarget(ms, np[Len(np)].mod, np[Len(np)].ref)

\* The leaf a path of the input has to end at after the split: a port of the
\* DUT stays on the shell, a component of the DUT or the DUT as a module is
\* in the wrapper, anything else is where it was.
EquivalentLeaf(np) ==
  LET leaf == np[Len(np)]
  IN IF leaf.mod # origDut.name THEN leaf
     ELSE IF leaf.ref = None THEN Loc(wrapperModule.name, None)
     ELSE IF leaf.ref \in OrigPortSyms THEN leaf
     ELSE Loc(wrapperModule.name, leaf.ref)

EquivalentRoot(np) ==
  IF root(np) = origDut.name THEN {origDut.name, wrapperModule.name}
  ELSE {root(np)}

\* C6: the paths of the input are well-formed, and after a successful run so
\* is every path against the new hierarchy; a path that touched the DUT goes
\* from its root to the equivalent leaf.
PathsStayReachable ==
  /\ \A p \in OrigPaths : WellFormed(orig.modules, p.namepath)
  /\ pc = "done" =>
       /\ \A q \in NowPaths : WellFormed(modules, q.namepath)
       /\ \A p \in OrigPaths :
            TouchesDut(p) =>
              LET q == PathOf(paths, p.sym).namepath
              IN /\ root(q) \in EquivalentRoot(p.namepath)
                 /\ q[Len(q)] = EquivalentLeaf(p.namepath)

\* The paths of the input that end at the DUT as a module and are named by
\* an annotation of the DUT or of one of its ports.
SharedLeafPaths ==
  {p \in OrigPaths :
     /\ leafMod(p.namepath) = origDut.name
     /\ isModule(p.namepath)
     /\ p.sym \in collectDutPaths(origDut)}

AllAnnos(m) ==
  Range(m.annos) \cup UNION {Range(m.portAnnos[i]) : i \in 1..Len(m.ports)}

\* C7: for such a path, after the run there is a clone under a fresh symbol
\* with the path's old namepath; the path itself, under its old symbol, ends
\* at the wrapper; the annotations of the shell and of its ports name the
\* clone and none names a path that ends at the wrapper; the other
\* annotations have the members they had.
ClonesAreIsolated ==
  pc = "done" =>
    /\ \A p \in SharedLeafPaths :
         /\ \E c \in NowPaths :
              /\ c.sym \notin OrigSyms
              /\ c.namepath = p.namepath
              /\ \A i \in 1..Len(shellModule.annos) :
                   shellModule.annos[i].nonlocal # p.sym
              /\ \A i \in 1..Len(shellModule.ports) :
                   /\ Len(shellModule.portAnnos[i]) = Len(origDut.portAnnos[i])
                   /\ \A k \in 1..Len(origDut.portAnnos[i]) :
                        origDut.portAnnos[i][k].nonlocal = p.sym =>
                          \E a \in Range(shellModule.portAnnos[i]) :
                            /\ a.cls = origDut.portAnnos[i][k].cls
                            /\ a.nonlocal = c.sym
              /\ \A k \in 1..Len(origDut.annos) :
                   origDut.annos[k].nonlocal = p.sym =>
                     \E a \in Range(shellModule.annos) :
                       /\ a.cls = origDut.annos[k].cls
                       /\ a.nonlocal = c.sym
         /\ LET q == PathOf(paths, p.sym).namepath
            IN /\ Len(q) = Len(p.namepath) + 1
               /\ q[Len(q)] = Loc(wrapperModule.name, None)
    /\ \A sym \in collectDutPaths(shellModule) :
         /\ \E q \in NowPaths : q.sym = sym
         /\ leafMod(PathOf(paths, sym).namepath) # wrapperModule.name
    /\ \A a \in AllAnnos(origDut) :
         (a.nonlocal \notin {p.sym : p \in SharedLeafPaths}
            /\ ~(moveDut /\ a.cls = dutAnnoClass))
           => a \in AllAnnos(shellModule)

\* The paths of the input that the extend case is about.
ExtendPaths ==
  {p \in OrigPaths :
     \/ \E i \in 2..(Len(p.namepath) - 1) : modPart(p.namepath, i) = origDut.name
     \/ leafMod(p.namepath) = origDut.name /\ isModule(p.namepath)
     \/ /\ leafMod(p.namepath) = origDut.name
        /\ isComponent(p.namepath)
        /\ ref(p.namepath) \notin OrigPortSyms}

FirstDutIndex(np) ==
  CHOOSE i \in 1..Len(np) :
    /\ modPart(np, i) = origDut.name
    /\ \A j \in 1..(i - 1) : modPart(np, j) # origDut.name

\* C8: such a path has one locator more after the run: what came before the
\* DUT's locator is unchanged, the DUT's locator is the wrapper's instance in
\* the shell followed by the old locator re-owned by the wrapper, what came
\* after is unchanged.
ExtendAddsOneLocator ==
  pc = "done" =>
    \A p \in ExtendPaths :
      LET np == p.namepath
          q == PathOf(paths, p.sym).namepath
          k == FirstDutIndex(np)
      IN /\ Len(q) = Len(np) + 1
         /\ \A i \in 1..(k - 1) : q[i] = np[i]
         /\ q[k] = Loc(shellModule.name, wrapperInst)
         /\ q[k + 1] = Loc(wrapperModule.name, np[k].ref)
         /\ \A i \in (k + 1)..Len(np) : q[i + 1] = np[i]

\* The paths of the input whose leaf is a port of the DUT, of any length.
PortLeafPaths ==
  {p \in OrigPaths :
     /\ leafMod(p.namepath) = origDut.name
     /\ isComponent(p.namepath)
     /\ ref(p.namepath) \in OrigPortSyms}

Started == pc \in {"split", "instantiate", "collect", "nlas", "aborted", "done"}

\* C9: a path whose leaf is a port of the DUT, even one of a single locator,
\* keeps its namepath and symbol, is not cloned, and no assertion fails on
\* it; no path is both a port-leaf path and a path that is extended.
PortLeafUntouched ==
  Started =>
    /\ \A p \in PortLeafPaths :
         /\ \E q \in NowPaths : q.sym = p.sym /\ q.namepath = p.namepath
         /\ \A r \in dutRenames : r.from # p.sym
         /\ ~(pc = "aborted" /\ Head(nlas) = p.sym)
    /\ \A p \in OrigPaths :
         ~(/\ isPortLeafCase(p.namepath, origDut.name, OrigPortSyms)
           /\ isCloneCase(p.namepath, p.sym, origDut.name,
                          collectDutPaths(origDut)))

\* The paths of the input whose root is the DUT.
RootPaths == {p \in OrigPaths : root(p.namepath) = origDut.name}

\* C10: a path whose root is the DUT has more than one locator, so the
\* assertion of line 270 holds when it is reached; after the run the path
\* has the length it had, its first locator has the same inner symbol and is
\* owned by the wrapper, the rest is unchanged, and there is no clone of it.
RootIsReowned ==
  Started =>
    \A p \in RootPaths :
      /\ (pc \in {"nlas", "aborted"} /\ nlas # <<>> /\ Head(nlas) = p.sym)
           => Len(p.namepath) > 1
      /\ \A r \in dutRenames : r.from # p.sym
      /\ pc = "done" =>
           LET q == PathOf(paths, p.sym).namepath
           IN /\ Len(q) = Len(p.namepath)
              /\ q[1] = Loc(wrapperModule.name, p.namepath[1].ref)
              /\ Tail(q) = Tail(p.namepath)

====
